---------------------------- MODULE Spec2Model ----------------------------
(***************************************************************************)
(* PAT_stdpsram.h: PSRAMAllocator<T>, externalRAM<T>, psram_function<R(A)> *)
(* over the ESP32 PSRAM pool (ps_malloc / free).                           *)
(*                                                                         *)
(* The pool is a bounded arena of PoolBytes bytes addressed by the handles *)
(* 1..MaxBlocks (0 is the null pointer).  std::size_t is SizeBits wide.    *)
(* Every action is one whole C++ operation; `last` records what that       *)
(* operation did (its pool calls, constructor and destructor calls, in     *)
(* order, and how it ended).                                               *)
(***************************************************************************)
EXTENDS Integers, Sequences, FiniteSets, TLC

VARIABLES inuse,     \* handles of the pool blocks currently allocated
          size,      \* byte length of each allocated block (0 when free)
          mem,       \* the object living in each block, Raw when there is none
          trapped,   \* the program was aborted by a detected memory fault
          rawOwned,  \* blocks a direct client of PSRAMAllocator holds: for
                     \* each handle the allocator instance it came from, or 0
          hold,      \* the externalRAM<T> values: live, object
          fn,        \* the psram_function values: live, impl
          last       \* the last operation and what it did

vars == <<inuse, size, mem, trapped, rawOwned, hold, fn, last>>

---------------------------------------------------------------------------
\* Bounds of the model.
SizeBits == 3
MaxBlocks == 2
PoolBytes == 3
MaxHolders == 2
MaxFuncs == 2
MaxCapture == 1
MaxArg == 1

NULL == 0
Handles == 1..MaxBlocks
Pointers == 0..MaxBlocks
Holders == 1..MaxHolders
Funcs == 1..MaxFuncs
Allocators == {1, 2}                 \* two PSRAMAllocator<T> instances
Captures == 0..MaxCapture
ArgVals == 0..MaxArg

\* std::size_t(-1)
SIZE_MAX == 2^SizeBits - 1

\* The element types the templates are instantiated with, and sizeof of each
\* (in bytes of the scaled-down pool).
\*   "int"     an externalRAM / container element with a non-throwing constructor
\*   "big"     an element whose constructor may throw
\*   "adder"   callable_holder<[k](int a, int b) { return a + b + k; }>
\*   "stepper" callable_holder<[k](int a, int b) mutable { return a + b + k++; }>
\*             whose copy constructor may throw
ElemTypes == {"int", "big"}
CallableTypes == {"adder", "stepper"}
AllTypes == ElemTypes \cup CallableTypes

SizeOf(t) == IF t \in {"int", "adder"} THEN 1 ELSE 2

MayThrow(t) == t \in {"big", "stepper"}

\* Storage that holds no object: its bytes are indeterminate.
Raw == [kind |-> "raw", type |-> "none", c |-> 0]

Object(k, t, v) == [kind |-> k, type |-> t, c |-> v]

---------------------------------------------------------------------------
\* The heap as the operations below thread it: H.ev is the list of pool and
\* object-lifetime events of the operation in progress.
Heap0 == [inuse |-> inuse, size |-> size, mem |-> mem, trapped |-> trapped,
          ev |-> <<>>]

Ev(e, p, b) == [e |-> e, p |-> p, b |-> b]

Log(H, e) == [H EXCEPT !.ev = Append(@, e)]

RECURSIVE SumSizes(_, _)
SumSizes(sz, k) == IF k = 0 THEN 0 ELSE sz[k] + SumSizes(sz, k - 1)

\* heap_caps_get_free_size(MALLOC_CAP_SPIRAM)
FreeOf(sz) == PoolBytes - SumSizes(sz, MaxBlocks)

FreeBytes == FreeOf(size)

\* ps_malloc(bytes): a block of the pool, or null.  The pool can grant only
\* a request that fits in the bytes that are free, and it may refuse any
\* request (the PSRAM heap is shared with the rest of the firmware).
ps_malloc(H, bytes) ==
    LET refused == [H |-> Log(H, Ev("malloc", NULL, bytes)), p |-> NULL]
        granted(h) == [H |-> Log([H EXCEPT !.inuse = @ \cup {h},
                                           !.size[h] = bytes],
                                 Ev("malloc", h, bytes)),
                       p |-> h]
        fits == IF bytes <= FreeOf(H.size) THEN Handles \ H.inuse ELSE {}
    IN  {refused} \cup {granted(h) : h \in fits}

\* free(p) of the C library.  free(null) does nothing.  Releasing a block
\* that is not allocated is undefined: the heap's integrity check aborts the
\* program, or the call goes unnoticed.
free(H, p) ==
    IF p = NULL
    THEN {Log(H, Ev("free", NULL, 0))}
    ELSE IF p \in H.inuse
    THEN {Log([H EXCEPT !.inuse = @ \ {p}, !.size[p] = 0, !.mem[p] = Raw],
              Ev("free", p, H.size[p]))}
    ELSE {Log([H EXCEPT !.trapped = TRUE], Ev("ub_free", p, 0)),
          Log(H, Ev("ub_free", p, 0))}

---------------------------------------------------------------------------
\* PSRAMAllocator<T>

\* T *allocate(std::size_t n), sizeof(T) = s: the set of its outcomes.
allocate_nocheck(H, n, s) ==
    {[H |-> o.H, p |-> o.p, res |-> IF o.p = NULL THEN "bad_alloc" ELSE "ok"] :
        o \in ps_malloc(H, (n * s) % (SIZE_MAX + 1))}

allocate_nullok(H, n, s) ==
    IF n > SIZE_MAX \div s
    THEN {[H |-> H, p |-> NULL, res |-> "bad_alloc"]}
    ELSE {[H |-> o.H, p |-> o.p, res |-> "ok"] :
             o \in ps_malloc(H, (n * s) % (SIZE_MAX + 1))}

allocate(H, n, s) ==
    IF n > SIZE_MAX \div s
    THEN {[H |-> H, p |-> NULL, res |-> "bad_alloc"]}
    ELSE {[H |-> o.H, p |-> o.p,
           res |-> IF o.p = NULL THEN "bad_alloc" ELSE "ok"] :
             o \in ps_malloc(H, (n * s) % (SIZE_MAX + 1))}

\* void deallocate(T *ptr, std::size_t) noexcept
deallocate_keep(H, p) == {H}

deallocate_unguarded(H, p) == free(H, p)

deallocate(H, p) == IF p # NULL THEN free(H, p) ELSE {H}

\* void construct(T *ptr, const T &value): new (ptr) T(value)
construct(H, p, obj) == Log([H EXCEPT !.mem[p] = obj], Ev("ctor", p, 0))

\* void destroy(T *ptr) noexcept: ptr->~T()
destroy_release(H, p) ==
    Log(Log([H EXCEPT !.mem[p] = Raw, !.inuse = @ \ {p}, !.size[p] = 0],
            Ev("dtor", p, 0)),
        Ev("free", p, H.size[p]))

destroy(H, p) == Log([H EXCEPT !.mem[p] = Raw], Ev("dtor", p, 0))

\* operator== / operator!= of two PSRAMAllocator instances: both definitions
\* are commented out, so the class declares neither and the expressions
\* a == b and a != b name no function.
AllocatorEquals(a, b) == "no_operator"

AllocatorNotEquals(a, b) == "no_operator"

---------------------------------------------------------------------------
\* What `last` records.
\*   op, who, n, s, p   the operation, the value it acts on (or the allocator
\*                      instance) and its arguments: n and sizeof(T) of
\*                      allocate; the source n of a copy; the arguments n, s
\*                      of a call; p the block it is about
\*   res, ret           how it ended ("ok" or the exception) and what it returned
\*   ev                 its pool calls, constructor and destructor calls, in order
\*   free0              the pool's free bytes when it began
\*   imm                it released the block the operation just before it allocated
\*   by                 the allocator instance that had allocated block p (or 0)
Did(op, who, n, s, p, res, ret, H, imm) ==
    [op |-> op, who |-> who, n |-> n, s |-> s, p |-> p, res |-> res,
     ret |-> ret, ev |-> H.ev, free0 |-> FreeBytes, imm |-> imm,
     by |-> IF p \in Handles THEN rawOwned[p] ELSE 0]

Commit(H) ==
    /\ inuse' = H.inuse
    /\ size' = H.size
    /\ mem' = H.mem
    /\ trapped' = H.trapped

Init ==
    /\ inuse = {}
    /\ size = [h \in Handles |-> 0]
    /\ mem = [h \in Handles |-> Raw]
    /\ trapped = FALSE
    /\ rawOwned = [h \in Handles |-> 0]
    /\ hold = [x \in Holders |-> [live |-> FALSE, object |-> NULL]]
    /\ fn = [f \in Funcs |-> [live |-> FALSE, impl |-> NULL]]
    /\ last = [op |-> "init", who |-> 0, n |-> 0, s |-> 0, p |-> NULL,
               res |-> "ok", ret |-> 0, ev |-> <<>>, free0 |-> PoolBytes,
               imm |-> FALSE, by |-> 0]

---------------------------------------------------------------------------
\* A direct client of the allocator (what a container does with it).

\* a.allocate(n) for PSRAMAllocator<T> a, sizeof(T) = s
Allocate(a, n, s) ==
    /\ ~trapped
    /\ \E o \in allocate(Heap0, n, s) :
          /\ Commit(o.H)
          /\ rawOwned' = IF o.res = "ok" THEN [rawOwned EXCEPT ![o.p] = a]
                                           ELSE rawOwned
          /\ last' = Did("allocate", a, n, s, o.p, o.res, o.p, o.H, FALSE)
    /\ UNCHANGED <<hold, fn>>

\* a.deallocate(p, n) of a block the client holds, or of null
Deallocate(a, p, n) ==
    /\ ~trapped
    /\ p = NULL \/ (p \in Handles /\ rawOwned[p] # 0)
    /\ \E H \in deallocate(Heap0, p) :
          /\ Commit(H)
          /\ last' = Did("deallocate", a, n, 0, p, "ok", 0, H,
                        last.op = "allocate" /\ last.res = "ok" /\ last.p = p)
    /\ rawOwned' = [h \in Handles |-> IF h = p THEN 0 ELSE rawOwned[h]]
    /\ UNCHANGED <<hold, fn>>

\* a.construct(p, value) into a block the client holds
Construct(a, p, v) ==
    /\ ~trapped
    /\ rawOwned[p] # 0
    /\ size[p] >= SizeOf("int")
    /\ LET H == construct(Heap0, p, Object("elem", "int", v))
       IN  /\ Commit(H)
           /\ last' = Did("construct", a, 0, 0, p, "ok", 0, H, FALSE)
    /\ UNCHANGED <<rawOwned, hold, fn>>

\* a.destroy(p) of an element the client constructed
Destroy(a, p) ==
    /\ ~trapped
    /\ rawOwned[p] # 0
    /\ mem[p] # Raw
    /\ LET H == destroy(Heap0, p)
       IN  /\ Commit(H)
           /\ last' = Did("destroy", a, 0, 0, p, "ok", 0, H, FALSE)
    /\ UNCHANGED <<rawOwned, hold, fn>>

\* allocate and deallocate alone: the traffic between allocator and pool
PoolNext ==
    \/ \E a \in Allocators, n \in 0..SIZE_MAX, s \in {SizeOf(t) : t \in AllTypes} :
          Allocate(a, n, s)
    \/ \E a \in Allocators, p \in Pointers, n \in 0..1 : Deallocate(a, p, n)

SpecPool == Init /\ [][PoolNext]_vars

AllocatorNext ==
    \/ PoolNext
    \/ \E a \in Allocators, p \in Handles, v \in Captures : Construct(a, p, v)
    \/ \E a \in Allocators, p \in Handles : Destroy(a, p)

SpecAlloc == Init /\ [][AllocatorNext]_vars

---------------------------------------------------------------------------
\* Access through a pointer whose object is gone (released, destroyed, or
\* its block handed to somebody else) is undefined: the access is detected
\* and the program aborted, or it goes on with the bytes it finds.
Live(H, p, k) == p \in H.inuse /\ H.mem[p].kind = k

UseAfterFree(H, p) == Log(H, Ev("ub_use", p, 0))

Trap(H, p) == [UseAfterFree(H, p) EXCEPT !.trapped = TRUE]

---------------------------------------------------------------------------
\* externalRAM<T>

\* explicit externalRAM(Args &&...args), T = t, constructing the value v;
\* thr: T's constructor throws.
externalRAM_ctor_nocheck(x, t, v, thr) ==
    /\ ~trapped
    /\ ~hold[x].live
    /\ thr => MayThrow(t)
    /\ \E o \in allocate(Heap0, 1, SizeOf(t)) :
          IF o.res # "ok" \/ ~thr
          THEN LET H == IF o.res = "ok"
                        THEN construct(o.H, o.p, Object("elem", t, v))
                        ELSE Log(o.H, Ev("ctor", o.p, 0))
               IN  /\ Commit(H)
                   /\ hold' = [hold EXCEPT ![x] = [live |-> TRUE, object |-> o.p]]
                   /\ last' = Did("externalRAM", x, 1, SizeOf(t), o.p, o.res,
                                  o.p, H, FALSE)
          ELSE /\ Commit(Log(o.H, Ev("ctor_throw", o.p, 0)))
               /\ hold' = hold
               /\ last' = Did("externalRAM", x, 1, SizeOf(t), o.p, "ctor_throw",
                              NULL, Log(o.H, Ev("ctor_throw", o.p, 0)), FALSE)
    /\ UNCHANGED <<rawOwned, fn>>

externalRAM_ctor(x, t, v, thr) ==
    /\ ~trapped
    /\ ~hold[x].live
    /\ thr => MayThrow(t)
    /\ \E o \in allocate(Heap0, 1, SizeOf(t)) :
          IF o.res # "ok"
          THEN \* allocate threw: no holder comes to exist
               /\ Commit(o.H)
               /\ hold' = hold
               /\ last' = Did("externalRAM", x, 1, SizeOf(t), NULL, o.res,
                              NULL, o.H, FALSE)
          ELSE IF thr
          THEN \* T's constructor threw: no holder, the block stays allocated
               /\ Commit(Log(o.H, Ev("ctor_throw", o.p, 0)))
               /\ hold' = hold
               /\ last' = Did("externalRAM", x, 1, SizeOf(t), o.p, "ctor_throw",
                              NULL, Log(o.H, Ev("ctor_throw", o.p, 0)), FALSE)
          ELSE LET H == construct(o.H, o.p, Object("elem", t, v))
               IN  /\ Commit(H)
                   /\ hold' = [hold EXCEPT ![x] = [live |-> TRUE, object |-> o.p]]
                   /\ last' = Did("externalRAM", x, 1, SizeOf(t), o.p, "ok",
                                  o.p, H, FALSE)
    /\ UNCHANGED <<rawOwned, fn>>

\* object->~T(); PSRAMAllocator<T>().deallocate(object, 1): the outcomes
externalRAM_release(H, p) ==
    IF Live(H, p, "elem")
    THEN deallocate(destroy(H, p), p)
    ELSE {Trap(H, p)} \cup deallocate(destroy(UseAfterFree(H, p), p), p)

\* ~externalRAM()
externalRAM_dtor(x) ==
    /\ ~trapped
    /\ hold[x].live
    /\ LET p == hold[x].object
       IN  \E H \in (IF p # NULL THEN externalRAM_release(Heap0, p) ELSE {Heap0}) :
              /\ Commit(H)
              /\ last' = Did("~externalRAM", x, 0, 0, p, "ok", 0, H, FALSE)
    /\ hold' = [hold EXCEPT ![x] = [live |-> FALSE, object |-> NULL]]
    /\ UNCHANGED <<rawOwned, fn>>

\* The copy constructor the class gets implicitly (it declares a destructor
\* and a constructor template, but deletes nothing): externalRAM<T> x = y
\* copies the pointer.
externalRAM_copy(x, y) ==
    /\ ~trapped
    /\ hold[y].live
    /\ ~hold[x].live
    /\ hold' = [hold EXCEPT ![x] = [live |-> TRUE, object |-> hold[y].object]]
    /\ last' = Did("externalRAM(copy)", x, y, 0, hold[y].object, "ok", 0,
                   Heap0, FALSE)
    /\ UNCHANGED <<inuse, size, mem, trapped, rawOwned, fn>>

\* The implicit copy assignment: x = y copies the pointer.
externalRAM_assign(x, y) ==
    /\ ~trapped
    /\ hold[x].live
    /\ hold[y].live
    /\ hold' = [hold EXCEPT ![x].object = hold[y].object]
    /\ last' = Did("externalRAM=", x, y, 0, hold[y].object, "ok", 0,
                   Heap0, FALSE)
    /\ UNCHANGED <<inuse, size, mem, trapped, rawOwned, fn>>

\* T &get() const / operator*() / operator->(): reading the owned object
externalRAM_get(x) ==
    /\ ~trapped
    /\ hold[x].live
    /\ LET p == hold[x].object
       IN  IF Live(Heap0, p, "elem")
           THEN /\ last' = Did("get", x, 0, 0, p, "ok", mem[p].c, Heap0, FALSE)
                /\ UNCHANGED trapped
           ELSE \/ /\ last' = Did("get", x, 0, 0, p, "trap", 0,
                                  Trap(Heap0, p), FALSE)
                   /\ trapped' = TRUE
                \/ \E v \in Captures :
                      /\ last' = Did("get", x, 0, 0, p, "ok", v,
                                     UseAfterFree(Heap0, p), FALSE)
                      /\ UNCHANGED trapped
    /\ UNCHANGED <<inuse, size, mem, rawOwned, hold, fn>>

HolderNext ==
    \/ \E x \in Holders, t \in ElemTypes, v \in Captures, thr \in BOOLEAN :
          externalRAM_ctor(x, t, v, thr)
    \/ \E x \in Holders : externalRAM_dtor(x)
    \/ \E x, y \in Holders : externalRAM_copy(x, y)
    \/ \E x, y \in Holders : externalRAM_assign(x, y)
    \/ \E x \in Holders : externalRAM_get(x)

SpecHolder == Init /\ [][HolderNext]_vars

---------------------------------------------------------------------------
\* psram_function<int(int, int)>

\* The result of the wrapped callable on (a, b) with captured state c.
CallResult(c, a, b) == a + b + c

Results == 0..(2 * MaxArg + MaxCapture)

\* The captured state after one call: only the mutable lambda changes it.
AfterCall(t, c) == IF t = "stepper" THEN (c + 1) % (MaxCapture + 1) ELSE c

\* R callable_holder::invoke(Args &&...args): return c(args...)
invoke(H, p, a, b) ==
    LET r == H.mem[p]
    IN  [H |-> [H EXCEPT !.mem[p].c = AfterCall(r.type, r.c)],
         ret |-> CallResult(r.c, a, b)]

\* The copy that clone builds of a record of type t whose captured state
\* reads as one of cs: allocate(1), then construct(ptr, *this), whose copy
\* of the callable may throw.
clone_of(H, t, cs) ==
    UNION {IF o.res # "ok"
           THEN {[H |-> o.H, p |-> NULL, res |-> o.res]}
           ELSE {[H |-> construct(o.H, o.p, Object("callable", t, c)),
                  p |-> o.p, res |-> "ok"] : c \in cs}
                \cup {[H |-> Log(o.H, Ev("ctor_throw", o.p, 0)), p |-> NULL,
                       res |-> "ctor_throw"] : c \in IF MayThrow(t) THEN {0} ELSE {}}
           : o \in allocate(H, 1, SizeOf(t))}

\* callable_base *callable_holder::clone() const, called through p
clone(H, p) ==
    IF Live(H, p, "callable")
    THEN clone_of(H, H.mem[p].type, {H.mem[p].c})
    ELSE {[H |-> Trap(H, p), p |-> NULL, res |-> "trap"]}
         \cup UNION {clone_of(UseAfterFree(H, p), t, Captures) :
                        t \in CallableTypes}

\* void callable_holder::destroy(), called through p:
\* alloc.destroy(this); alloc.deallocate(this, 1)
callable_destroy(H, p) ==
    IF Live(H, p, "callable")
    THEN deallocate(destroy(H, p), p)
    ELSE {Trap(H, p)} \cup deallocate(destroy(UseAfterFree(H, p), p), p)

Empty == [live |-> TRUE, impl |-> NULL]

Gone == [live |-> FALSE, impl |-> NULL]

Bound(p) == [live |-> TRUE, impl |-> p]

\* psram_function() noexcept : impl(nullptr)
psram_function_default(f) ==
    /\ ~trapped
    /\ ~fn[f].live
    /\ fn' = [fn EXCEPT ![f] = Empty]
    /\ last' = Did("psram_function()", f, 0, 0, NULL, "ok", 0, Heap0, FALSE)
    /\ UNCHANGED <<inuse, size, mem, trapped, rawOwned, hold>>

\* template <typename Callable> psram_function(const Callable &c), the
\* callable of type t capturing c; thr: copying the callable throws.
\* (The body hands impl, a callable_base*, to construct(holder_t*, ...);
\* the action is the construction that line spells out: the holder is built
\* in the block allocate(1) just returned.)
psram_function_from(f, t, c, thr) ==
    /\ ~trapped
    /\ ~fn[f].live
    /\ thr => MayThrow(t)
    /\ \E o \in allocate(Heap0, 1, SizeOf(t)) :
          IF o.res # "ok"
          THEN /\ Commit(o.H)
               /\ fn' = fn
               /\ last' = Did("psram_function(c)", f, 0, 0, NULL, o.res, 0,
                              o.H, FALSE)
          ELSE IF thr
          THEN \* holder_t(c) or its copy into the block threw
               /\ Commit(Log(o.H, Ev("ctor_throw", o.p, 0)))
               /\ fn' = fn
               /\ last' = Did("psram_function(c)", f, 0, 0, o.p, "ctor_throw", 0,
                              Log(o.H, Ev("ctor_throw", o.p, 0)), FALSE)
          ELSE LET H == construct(o.H, o.p, Object("callable", t, c))
               IN  /\ Commit(H)
                   /\ fn' = [fn EXCEPT ![f] = Bound(o.p)]
                   /\ last' = Did("psram_function(c)", f, 0, 0, o.p, "ok", 0,
                                  H, FALSE)
    /\ UNCHANGED <<rawOwned, hold>>

\* psram_function(const psram_function &other) : impl(nullptr), g from f
psram_function_copy(g, f) ==
    /\ ~trapped
    /\ fn[f].live
    /\ ~fn[g].live
    /\ IF fn[f].impl = NULL
       THEN /\ fn' = [fn EXCEPT ![g] = Empty]
            /\ last' = Did("psram_function(copy)", g, f, 0, NULL, "ok", 0,
                           Heap0, FALSE)
            /\ UNCHANGED <<inuse, size, mem, trapped>>
       ELSE \E o \in clone(Heap0, fn[f].impl) :
               /\ Commit(o.H)
               /\ fn' = IF o.res = "ok" THEN [fn EXCEPT ![g] = Bound(o.p)] ELSE fn
               /\ last' = Did("psram_function(copy)", g, f, 0, fn[f].impl,
                              o.res, 0, o.H, FALSE)
    /\ UNCHANGED <<rawOwned, hold>>

\* psram_function &operator=(const psram_function &other), g = f
psram_function_assign_noself(g, f) ==
    /\ ~trapped
    /\ fn[f].live
    /\ fn[g].live
    /\ \E H1 \in (IF fn[g].impl # NULL
                  THEN callable_destroy(Heap0, fn[g].impl) ELSE {Heap0}) :
          IF H1.trapped
          THEN /\ Commit(H1)
               /\ fn' = fn
               /\ last' = Did("operator=", g, f, 0, fn[f].impl, "trap", 0,
                              H1, FALSE)
          ELSE IF fn[f].impl = NULL
          THEN /\ Commit(H1)
               /\ fn' = [fn EXCEPT ![g] = Empty]
               /\ last' = Did("operator=", g, f, 0, NULL, "ok", 0, H1, FALSE)
          ELSE \E o \in clone(H1, fn[f].impl) :
                  /\ Commit(o.H)
                  /\ fn' = IF o.res = "ok"
                           THEN [fn EXCEPT ![g] = Bound(o.p)] ELSE fn
                  /\ last' = Did("operator=", g, f, 0, fn[f].impl, o.res,
                                 0, o.H, FALSE)
    /\ UNCHANGED <<rawOwned, hold>>

psram_function_assign(g, f) ==
    /\ ~trapped
    /\ fn[f].live
    /\ fn[g].live
    /\ IF g = f
       THEN /\ last' = Did("operator=", g, f, 0, fn[f].impl, "ok", 0, Heap0, FALSE)
            /\ UNCHANGED <<inuse, size, mem, trapped, fn>>
       ELSE \E H1 \in (IF fn[g].impl # NULL
                       THEN callable_destroy(Heap0, fn[g].impl) ELSE {Heap0}) :
               IF H1.trapped
               THEN /\ Commit(H1)
                    /\ fn' = fn
                    /\ last' = Did("operator=", g, f, 0, fn[f].impl, "trap", 0,
                                   H1, FALSE)
               ELSE IF fn[f].impl = NULL
               THEN /\ Commit(H1)
                    /\ fn' = [fn EXCEPT ![g] = Empty]
                    /\ last' = Did("operator=", g, f, 0, NULL, "ok", 0, H1, FALSE)
               ELSE \E o \in clone(H1, fn[f].impl) :
                       /\ Commit(o.H)
                       /\ fn' = IF o.res = "ok"
                                THEN [fn EXCEPT ![g] = Bound(o.p)] ELSE fn
                       /\ last' = Did("operator=", g, f, 0, fn[f].impl, o.res,
                                      0, o.H, FALSE)
    /\ UNCHANGED <<rawOwned, hold>>

\* ~psram_function()
psram_function_dtor(f) ==
    /\ ~trapped
    /\ fn[f].live
    /\ LET p == fn[f].impl
       IN  \E H \in (IF p # NULL THEN callable_destroy(Heap0, p) ELSE {Heap0}) :
              /\ Commit(H)
              /\ last' = Did("~psram_function", f, 0, 0, p, "ok", 0, H, FALSE)
    /\ fn' = [fn EXCEPT ![f] = Gone]
    /\ UNCHANGED <<rawOwned, hold>>

\* R operator()(Args... args) const, f(a, b)
psram_function_call_nocheck(f, a, b) ==
    /\ ~trapped
    /\ fn[f].live
    /\ LET p == fn[f].impl
       IN  IF Live(Heap0, p, "callable")
           THEN LET o == invoke(Log(Heap0, Ev("invoke", p, 0)), p, a, b)
                IN  /\ Commit(o.H)
                    /\ last' = Did("operator()", f, a, b, p, "ok", o.ret, o.H, FALSE)
           ELSE \E r \in Results \cup {-1} :
                   LET H == IF r = -1 THEN Trap(Heap0, p) ELSE UseAfterFree(Heap0, p)
                   IN  /\ Commit(H)
                       /\ last' = Did("operator()", f, a, b, p,
                                      IF r = -1 THEN "trap" ELSE "ok", r, H, FALSE)
    /\ UNCHANGED <<rawOwned, hold, fn>>

psram_function_call(f, a, b) ==
    /\ ~trapped
    /\ fn[f].live
    /\ LET p == fn[f].impl
       IN  IF p = NULL
           THEN /\ last' = Did("operator()", f, a, b, NULL, "bad_function_call",
                               0, Heap0, FALSE)
                /\ UNCHANGED <<inuse, size, mem, trapped>>
           ELSE IF Live(Heap0, p, "callable")
           THEN LET o == invoke(Log(Heap0, Ev("invoke", p, 0)), p, a, b)
                IN  /\ Commit(o.H)
                    /\ last' = Did("operator()", f, a, b, p, "ok", o.ret, o.H, FALSE)
           ELSE \E r \in Results \cup {-1} :
                   LET H == IF r = -1 THEN Trap(Heap0, p) ELSE UseAfterFree(Heap0, p)
                   IN  /\ Commit(H)
                       /\ last' = Did("operator()", f, a, b, p,
                                      IF r = -1 THEN "trap" ELSE "ok", r, H, FALSE)
    /\ UNCHANGED <<rawOwned, hold, fn>>

\* explicit operator bool() const noexcept
psram_function_bool(f) ==
    /\ ~trapped
    /\ fn[f].live
    /\ last' = Did("operator bool", f, 0, 0, fn[f].impl, "ok",
                   IF fn[f].impl # NULL THEN 1 ELSE 0, Heap0, FALSE)
    /\ UNCHANGED <<inuse, size, mem, trapped, rawOwned, hold, fn>>

FunctionNext ==
    \/ \E f \in Funcs : psram_function_default(f)
    \/ \E f \in Funcs, t \in CallableTypes, c \in Captures, thr \in BOOLEAN :
          psram_function_from(f, t, c, thr)
    \/ \E g, f \in Funcs : psram_function_copy(g, f)
    \/ \E g, f \in Funcs : psram_function_assign(g, f)
    \/ \E f \in Funcs : psram_function_dtor(f)
    \/ \E f \in Funcs, a, b \in ArgVals : psram_function_call(f, a, b)
    \/ \E f \in Funcs : psram_function_bool(f)

SpecFunc == Init /\ [][FunctionNext]_vars

\* The owners of pool blocks together, over one pool: every operation that
\* creates, copies, assigns or ends an externalRAM or a psram_function.
LayerNext ==
    \/ \E x \in Holders, t \in ElemTypes, v \in Captures, thr \in BOOLEAN :
          externalRAM_ctor(x, t, v, thr)
    \/ \E x \in Holders : externalRAM_dtor(x)
    \/ \E x, y \in Holders : externalRAM_copy(x, y)
    \/ \E x, y \in Holders : externalRAM_assign(x, y)
    \/ \E f \in Funcs : psram_function_default(f)
    \/ \E f \in Funcs, t \in CallableTypes, c \in Captures, thr \in BOOLEAN :
          psram_function_from(f, t, c, thr)
    \/ \E g, f \in Funcs : psram_function_copy(g, f)
    \/ \E g, f \in Funcs : psram_function_assign(g, f)
    \/ \E f \in Funcs : psram_function_dtor(f)

SpecLayer == Init /\ [][LayerNext]_vars

Next == AllocatorNext \/ HolderNext \/ FunctionNext

Spec == Init /\ [][Next]_vars

---------------------------------------------------------------------------
\* Properties of PSRAMAllocator (checked under SpecPool)

\* The events of the last operation that are calls of ps_malloc / of free.
Mallocs == SelectSeq(last.ev, LAMBDA e : e.e = "malloc")

Frees == SelectSeq(last.ev, LAMBDA e : e.e \in {"free", "ub_free"})

\* C4 - Overflow rejection: allocate(n) with sizeof(T) = s throws bad_alloc
\* without calling ps_malloc exactly when n * s > SIZE_MAX; for every other
\* n it calls ps_malloc exactly once, with the byte count n * s.
C4_OverflowRejection ==
    last.op = "allocate" =>
        IF last.n * last.s > SIZE_MAX
        THEN last.res = "bad_alloc" /\ last.ev = <<>>
        ELSE /\ Len(last.ev) = 1
             /\ last.ev[1].e = "malloc"
             /\ last.ev[1].b = last.n * last.s

C4_Witness ==
    /\ last.op = "allocate"
    /\ last.s = 2
    /\ last.n = (SIZE_MAX \div 2) + 1
    /\ last.res = "bad_alloc"

\* C5 - Exhaustion is reported: when ps_malloc returns null, allocate throws
\* bad_alloc; allocate never returns null, calls ps_malloc at most once, and
\* the block it returns is the one ps_malloc granted.
C5_ExhaustionReported ==
    last.op = "allocate" =>
        /\ Len(Mallocs) <= 1
        /\ Len(last.ev) = Len(Mallocs)
        /\ (last.res = "ok") = (Len(Mallocs) = 1 /\ Mallocs[1].p # NULL)
        /\ last.res = "ok" => last.ret # NULL /\ last.ret = Mallocs[1].p
        /\ last.res # "ok" => last.res = "bad_alloc" /\ FreeBytes = last.free0

C5_Witness ==
    /\ last.op = "allocate"
    /\ last.n * last.s <= SIZE_MAX
    /\ last.n * last.s > last.free0
    /\ Len(Mallocs) = 1
    /\ Mallocs[1].p = NULL
    /\ last.res = "bad_alloc"

\* C9 - Allocation round-trip: a successful allocate(n) immediately followed
\* by deallocate of the handle it returned leaves the pool's free bytes at
\* their value before the allocate.
C9_RoundTrip ==
    [][(/\ last.op = "allocate"
        /\ last.res = "ok"
        /\ last'.op = "deallocate"
        /\ last'.p = last.ret) => FreeBytes' = last.free0]_vars

C9_Witness ==
    /\ last.op = "deallocate"
    /\ last.imm
    /\ Len(Frees) = 1
    /\ Frees[1].b > 0

\* C10 - Allocator equivalence: any two PSRAMAllocator instances of the same
\* element type compare equal (and not unequal), and a block allocated
\* through one instance is released by deallocate through the other exactly
\* as through the first.
C10_AllocatorEquivalence ==
    /\ \A a, b \in Allocators :
          AllocatorEquals(a, b) = "true" /\ AllocatorNotEquals(a, b) = "false"
    /\ (last.op = "deallocate" /\ last.p # NULL) =>
          /\ last.ev = <<Ev("free", last.p, FreeBytes - last.free0)>>
          /\ last.p \notin inuse

\* C12 - deallocate on a null handle is a no-op: deallocate(null, n) makes
\* no call of free, does not fail and leaves the pool as it was, for every
\* n; deallocate(p, n) of a non-null p calls free exactly once, on p,
\* whatever n is.
C12_DeallocateNull ==
    [][last'.op = "deallocate" =>
          IF last'.p = NULL
          THEN /\ last'.ev = <<>>
               /\ last'.res = "ok"
               /\ ~trapped'
               /\ UNCHANGED <<inuse, size, mem>>
          ELSE /\ Len(last'.ev) = 1
               /\ last'.ev[1].e \in {"free", "ub_free"}
               /\ last'.ev[1].p = last'.p]_vars

C12_Witness ==
    /\ last.op = "deallocate"
    /\ last.p = NULL
    /\ last.n = 1
    /\ last.ev = <<>>
    /\ inuse # {}

---------------------------------------------------------------------------
\* Properties of construct and destroy (checked under SpecAlloc)

\* C19 - construct and destroy leave the pool untouched: construct(p, v)
\* makes no call of ps_malloc and destroy(p) no call of free (neither makes
\* any pool call); after either one the set of allocated blocks, every
\* block's size and the pool's free bytes are what they were, and the block
\* at p is still allocated.
C19_ConstructDestroyFrame ==
    [][last'.op \in {"construct", "destroy"} =>
          /\ \A k \in 1..Len(last'.ev) :
                last'.ev[k].e \notin {"malloc", "free", "ub_free"}
          /\ last'.ev = <<Ev(IF last'.op = "construct" THEN "ctor" ELSE "dtor",
                             last'.p, 0)>>
          /\ inuse' = inuse
          /\ size' = size
          /\ FreeBytes' = FreeBytes
          /\ last'.p \in inuse']_vars

C19_Witness ==
    /\ last.op = "destroy"
    /\ last.p \in inuse
    /\ mem[last.p] = Raw
    /\ FreeBytes = last.free0
    /\ FreeBytes < PoolBytes

---------------------------------------------------------------------------
\* Properties of externalRAM (checked under SpecHolder)

\* C6 - Holder lifecycle: a live holder owns a non-null allocated block that
\* holds a constructed T for its whole lifetime, and destroying it runs T's
\* destructor and then releases that block, each exactly once, giving the
\* block's bytes back to the pool.
C6_HolderLifecycle ==
    /\ \A x \in Holders :
          hold[x].live =>
              hold[x].object # NULL /\ Live(Heap0, hold[x].object, "elem")
    /\ last.op = "~externalRAM" =>
          /\ Len(last.ev) = 2
          /\ last.ev[1] = Ev("dtor", last.p, 0)
          /\ last.ev[2].e = "free"
          /\ last.ev[2].p = last.p
          /\ FreeBytes = last.free0 + last.ev[2].b

\* C7 - Holder allocation failure: when the one-element allocation fails in
\* the holder's constructor, bad_alloc reaches the caller, T's constructor is
\* not run, no holder exists, and no block is held or released.
C7_HolderAllocationFailure ==
    (last.op = "externalRAM" /\ last.res = "bad_alloc") =>
        /\ ~hold[last.who].live
        /\ \A i \in 1..Len(last.ev) :
              last.ev[i].e = "malloc" /\ last.ev[i].p = NULL
        /\ Len(last.ev) <= 1
        /\ FreeBytes = last.free0

C7_Witness ==
    /\ last.op = "externalRAM"
    /\ last.res = "bad_alloc"
    /\ Len(last.ev) = 1
    /\ last.free0 < last.s

\* C8 - Holder exclusive ownership: no two live holders own the same block,
\* and no holder operation destroys or releases a block that is not (or no
\* longer) an allocated block holding a T.
C8_ExclusiveOwnership ==
    /\ \A x, y \in Holders :
          (x # y /\ hold[x].live /\ hold[y].live) =>
              hold[x].object # hold[y].object
    /\ \A i \in 1..Len(last.ev) : last.ev[i].e \notin {"ub_free", "ub_use"}

---------------------------------------------------------------------------
\* Properties of psram_function (checked under SpecFunc)

IsCopy(op) == op \in {"psram_function(copy)", "operator="}

\* C1 - Callable copy independence: copying a Bound f to g (copy constructor
\* or copy assignment) leaves g Bound to a record of f's concrete type and
\* captured state in a block this very operation allocated, distinct from
\* f's block, with f unchanged; and a call through f right after the copy
\* leaves g's record as it was.
C1_CopyIndependence ==
    [][/\ (/\ IsCopy(last'.op)
           /\ last'.who # last'.n
           /\ last'.res = "ok"
           /\ fn[last'.n].impl # NULL
           /\ Live(Heap0, fn[last'.n].impl, "callable"))
          => LET g == last'.who
                 f == last'.n
             IN  /\ fn'[g].live
                 /\ fn'[g].impl # NULL
                 /\ fn'[f] = fn[f]
                 /\ fn'[g].impl # fn'[f].impl
                 /\ fn'[g].impl \in inuse'
                 /\ \E i \in 1..Len(last'.ev) :
                       /\ last'.ev[i].e = "malloc"
                       /\ last'.ev[i].p = fn'[g].impl
                 /\ mem'[fn'[f].impl] = mem[fn[f].impl]
                 /\ mem'[fn'[g].impl] = mem[fn[f].impl]
       /\ (/\ IsCopy(last.op)
           /\ last.who # last.n
           /\ last.res = "ok"
           /\ last.p # NULL
           /\ last'.op = "operator()"
           /\ last'.who = last.n)
          => mem'[fn[last.who].impl] = mem[fn[last.who].impl]]_vars

\* C2 - Empty-invoke failure: a call through an Empty psram_function throws
\* bad_function_call, dispatches to no record, and leaves the wrapper Empty;
\* a call through a wrapper that is not Empty never throws it.
C2_EmptyInvoke ==
    last.op = "operator()" =>
        /\ (last.p = NULL) = (last.res = "bad_function_call")
        /\ last.p = NULL =>
              /\ last.ev = <<>>
              /\ fn[last.who] = Empty
              /\ FreeBytes = last.free0

C2_Witness ==
    /\ last.op = "operator()"
    /\ last.res = "bad_function_call"
    /\ \E g \in Funcs : g # last.who /\ fn[g].live /\ fn[g].impl # NULL

\* C3 - Lifetime independence of copies: every live psram_function that is
\* not Empty refers to an allocated block holding a callable record that has
\* not been destroyed.
C3_LifetimeIndependence ==
    \A f \in Funcs :
        (fn[f].live /\ fn[f].impl # NULL) => Live(Heap0, fn[f].impl, "callable")


\* C11 - Two-state invariant of the callable: every live psram_function is
\* Empty or Bound to one live pool-resident callable record; the default
\* constructor yields Empty, a successful construction from a callable
\* yields Bound (to the record it built in the block it allocated), and the
\* boolean conversion returns true exactly when the wrapper is Bound.
C11_TwoStates ==
    /\ \A f \in Funcs :
          fn[f].live => \/ fn[f] = Empty
                        \/ /\ fn[f].impl \in Handles
                           /\ Live(Heap0, fn[f].impl, "callable")
    /\ last.op = "psram_function()" => fn[last.who] = Empty
    /\ (last.op = "psram_function(c)" /\ last.res = "ok") =>
          /\ fn[last.who] = Bound(last.p)
          /\ Live(Heap0, last.p, "callable")
          /\ Len(Mallocs) = 1 /\ Mallocs[1].p = last.p
    /\ last.op = "operator bool" =>
          (last.ret = 1) = (/\ fn[last.who].impl \in Handles
                            /\ Live(Heap0, fn[last.who].impl, "callable"))

\* The events of the last operation that end an object's life or release a
\* block (destructor calls, calls of free, accesses to a dead object).
Teardown(ev) ==
    SelectSeq(ev, LAMBDA e : e.e \in {"dtor", "free", "ub_free", "ub_use"})

\* C13 - Copy assignment between two distinct values, g = f: g's existing
\* record, if any, is destroyed and its block released exactly once, before
\* anything else the assignment does (in particular before the clone is made
\* and g takes its new state); when the assignment completes, g is Empty if f
\* was Empty and Bound to a fresh clone of f's record if f was Bound; f and
\* its record are unchanged.
C13_CopyAssignment ==
    [][(last'.op = "operator=" /\ last'.who # last'.n) =>
          LET g == last'.who
              f == last'.n
              old == fn[g].impl
              src == fn[f].impl
              ev == last'.ev
          IN  /\ IF old # NULL
                 THEN /\ Len(ev) >= 2
                      /\ ev[1] = Ev("dtor", old, 0)
                      /\ ev[2] = Ev("free", old, size[old])
                      /\ Len(Teardown(ev)) = 2
                 ELSE Teardown(ev) = <<>>
              /\ last'.res = "ok" =>
                    IF src = NULL
                    THEN fn'[g] = Empty
                    ELSE /\ fn'[g].live
                         /\ fn'[g].impl \in inuse' \ {src}
                         /\ \E k \in 1..Len(ev) :
                               ev[k] = Ev("malloc", fn'[g].impl, size[src])
                         /\ mem'[fn'[g].impl] = mem[src]
              /\ fn'[f] = fn[f]
              /\ src # NULL => /\ (src \in inuse) = (src \in inuse')
                               /\ mem'[src] = mem[src]
                               /\ size'[src] = size[src]]_vars

\* C14 - Failed copy assignment leaves no partial-success state: when g = f
\* fails (the clone cannot be made), g is left Empty or Bound to a live
\* record, never referring to a record already destroyed and released; and
\* no later destruction or assignment releases a block that is not
\* allocated.
C14_FailedAssignment ==
    /\ (last.op = "operator=" /\ last.res \in {"bad_alloc", "ctor_throw"}) =>
          LET g == last.who
          IN  \/ fn[g] = Empty
              \/ /\ fn[g].live
                 /\ fn[g].impl \in Handles
                 /\ Live(Heap0, fn[g].impl, "callable")
    /\ last.op \in {"operator=", "~psram_function"} =>
          \A k \in 1..Len(last.ev) : last.ev[k].e # "ub_free"

\* C15 - Self-assignment is a no-op: f = f, with f Empty or Bound, makes no
\* pool allocation and no pool release, destroys and clones no record, and
\* leaves f with the very record (or Empty) it had.
C15_SelfAssignment ==
    [][(last'.op = "operator=" /\ last'.who = last'.n) =>
          /\ last'.ev = <<>>
          /\ last'.res = "ok"
          /\ UNCHANGED <<inuse, size, mem, trapped, fn>>]_vars

C15_Witness ==
    /\ last.op = "operator="
    /\ last.who = last.n
    /\ fn[last.who].impl \in Handles
    /\ Live(Heap0, fn[last.who].impl, "callable")
    /\ last.p = fn[last.who].impl

\* C16 - Callable destruction: destroying a psram_function that is not Empty
\* runs the callable's destructor and then releases the record's block, in
\* that order, each exactly once, and the block's bytes return to the pool;
\* destroying an Empty one makes no pool call and destroys nothing.
C16_CallableDestruction ==
    last.op = "~psram_function" =>
        /\ ~fn[last.who].live
        /\ IF last.p # NULL
           THEN /\ Len(last.ev) = 2
                /\ last.ev[1] = Ev("dtor", last.p, 0)
                /\ last.ev[2].e = "free"
                /\ last.ev[2].p = last.p
                /\ last.ev[2].b > 0
                /\ FreeBytes = last.free0 + last.ev[2].b
                /\ last.p \notin inuse
           ELSE /\ last.ev = <<>>
                /\ FreeBytes = last.free0

---------------------------------------------------------------------------
\* Properties of the layer as a whole (checked under SpecLayer)

\* The blocks the live holders and the live wrappers that are not Empty own.
HolderBlocks == {hold[x].object : x \in {y \in Holders : hold[y].live}} \ {NULL}

WrapperBlocks == {fn[f].impl : f \in {g \in Funcs : fn[g].live}} \ {NULL}

\* C17 - No leak and no double release across the layer: the blocks
\* allocated and not yet released are exactly the blocks owned by the live
\* externalRAM holders and the live Bound psram_function wrappers, one block
\* per owner (so with every owner destroyed no block is left allocated), and
\* no operation releases a block that is not allocated.
C17_NoLeakNoDoubleRelease ==
    /\ inuse = HolderBlocks \cup WrapperBlocks
    /\ HolderBlocks \cap WrapperBlocks = {}
    /\ \A x, y \in Holders :
          (x # y /\ hold[x].live /\ hold[y].live /\ hold[x].object # NULL) =>
              hold[x].object # hold[y].object
    /\ \A f, g \in Funcs :
          (f # g /\ fn[f].live /\ fn[g].live /\ fn[f].impl # NULL) =>
              fn[f].impl # fn[g].impl
    /\ \A k \in 1..Len(last.ev) : last.ev[k].e # "ub_free"

\* C18 - Construction failure after allocation does not leak: when the
\* constructor of the object throws after its block was obtained (T's
\* constructor in externalRAM(args...), the callable's copy constructor in
\* psram_function(const Callable&) or in clone), that block is released
\* again by the same operation and no holder or wrapper owns it.
C18_ConstructionFailure ==
    \A k \in 1..Len(last.ev) :
        last.ev[k].e = "ctor_throw" =>
            LET b == last.ev[k].p
            IN  /\ \E j \in (k + 1)..Len(last.ev) :
                      last.ev[j].e = "free" /\ last.ev[j].p = b
                /\ b \notin inuse
                /\ b \notin HolderBlocks \cup WrapperBlocks

=============================================================================
